---- MODULE Spec2Model ----
\* HotStandbyJob controller (pool-of-Jobs reconciler, operate_hsj_parallelism.py)
\* and the Redis pod-state store it reads (pod_status_manager.py).
EXTENDS Integers, Sequences, FiniteSets, TLC

\* ---------------------------------------------------------------- bounds
MaxPods == 2
MaxJobs == 2
MaxIdleTarget == 2
MaxReplicas == 1

\* ---------------------------------------------------------------- values
\* Python None / an optional int: <<>> is None, <<v>> is the int v.
None == <<>>
Some(v) == <<v>>
IsNone(x) == x = <<>>
\* the replica bounds considered: unset or 0..MaxReplicas, and for maxReplicas
\* also 10 (scenario S1), which is above every demand the model reaches
OptMinReplicas == {None} \cup {Some(v) : v \in 0..MaxReplicas}
OptMaxReplicas == OptMinReplicas \cup {Some(10)}

Max(a, b) == IF a >= b THEN a ELSE b
Min(a, b) == IF a <= b THEN a ELSE b

CountIf(seq, P(_)) == Cardinality({i \in 1..Len(seq) : P(seq[i])})

\* str.lower() on the strings the model uses
Lower(s) ==
  CASE s = "True" -> "true"
    [] s = "TRUE" -> "true"
    [] s = "Redis" -> "redis"
    [] OTHER -> s

DEFAULT_BUSY_ANN == "paia.tech/busy"
JOB_OWNER_LABEL == "hsj.paia.tech/name"
HsjName == "hsj"
HsjUid == "uid-hsj"
HsjKind == "HotStandbyJob"
HsjApiVersion == "apps.paia.tech/v1alpha1"

PodNames == 1..MaxPods

\* ---------------------------------------------------------------- pod-state store
PodStatus == {"starting", "idle", "busy", "error"}

\* json.dumps / json.loads on the values kept in the hash: a stored value is
\* either the encoding of a dict or a string that is not JSON.
JsonDumps(d) == <<"json", d>>
NotJson == <<"garbage">>
IsJson(v) == Len(v) = 2 /\ v[1] = "json"
JsonLoads(v) == v[2]
\* no field for that pod in the hash
NoField == <<>>

StatusData(st, t) == JsonDumps([status |-> st, updated_at |-> t])

\* dict.get(key) -> None | value, for a dict held as a function
DictHas(d, k) == k \in DOMAIN d
EmptyDict == [k \in {} |-> 0]

\* PodStatusMonitor.get_all_pods: one HGETALL, unparsable values skipped; an
\* exception of the read is caught inside and an empty dict is returned, so
\* the call never raises (raised is what the caller's try sees).
GetAllPods(h, hgetallFails) ==
  IF hgetallFails THEN [raised |-> FALSE, pods |-> EmptyDict]
  ELSE [raised |-> FALSE,
        pods |-> [n \in {m \in DOMAIN h : IsJson(h[m])} |-> JsonLoads(h[n])]]

\* ---------------------------------------------------------------- cluster pods
NoAnn == "<no annotation>"

\* What the cluster returns for one pod name, and how that pod answers probes:
\* present (the pod exists and matches the selector), phase, deleting
\* (metadata.deletionTimestamp set), ann (value of the busy annotation), ip
\* (status.podIP set), http (answer to the HTTP probe), exec (result of the
\* exec probe), reread (result of read_namespaced_pod after a failed exec),
\* raw (the value of the pod's field in the store hash).
BasePod ==
  [present |-> TRUE, phase |-> "Running", deleting |-> FALSE, ann |-> NoAnn,
   ip |-> TRUE, http |-> "2xx", exec |-> "exit0", reread |-> "Running",
   raw |-> NoField]

BusyLookingPod == [BasePod EXCEPT !.ann = "true", !.raw = StatusData("busy", 0)]

AbsentPod == [BusyLookingPod EXCEPT !.present = FALSE]

IneligiblePods ==
  {[BusyLookingPod EXCEPT !.phase = "Pending"],
   [BusyLookingPod EXCEPT !.phase = "Succeeded"],
   [BusyLookingPod EXCEPT !.deleting = TRUE]}

AnnValues == {NoAnn, "True", "false"}
HttpAnswers == {"2xx", "5xx", "error"}
RawValues ==
  {NoField, NotJson} \cup {StatusData(s, 0) : s \in PodStatus \cup {"paused"}}

RunningPods(mode, monitor) ==
  CASE mode = "http" ->
         {[BasePod EXCEPT !.ip = FALSE]} \cup {[BasePod EXCEPT !.http = a] : a \in HttpAnswers}
    [] mode = "exec" ->
         {BasePod, [BasePod EXCEPT !.exec = "raise"]}
         \cup {[BasePod EXCEPT !.exec = "exit1", !.reread = r] : r \in {"Running", "Succeeded", "raise"}}
    [] mode = "redis" /\ monitor ->
         {[BasePod EXCEPT !.raw = v] : v \in RawValues}
    [] mode \in {"annotation", "redis"} /\ ~(mode = "redis" /\ monitor) ->
         {[BasePod EXCEPT !.ann = a] : a \in AnnValues}
    [] OTHER -> {BasePod}

PodCases(mode, monitor) == {AbsentPod} \cup IneligiblePods \cup RunningPods(mode, monitor)

Worlds(mode, monitor) == [PodNames -> PodCases(mode, monitor)]

\* v1.list_namespaced_pod(namespace, label_selector=sel).items
ListNamespacedPod(world) ==
  SelectSeq([p \in 1..MaxPods |-> [name |-> p] @@ world[p]], LAMBDA q : q.present)

\* redis.hgetall(key_prefix)
HGetAll(world) ==
  [p \in {q \in PodNames : world[q].raw # NoField} |-> world[p].raw]

\* ---------------------------------------------------------------- probes
\* the filter of the legacy variant (operate_hsj.py): pods being deleted are
\* dropped, the phase is not looked at
PodsBySelectorNotDeleting(world) ==
  SelectSeq(ListNamespacedPod(world), LAMBDA p : ~p.deleting)

\* _pods_by_selector: the listed pods that are not being deleted and Running
PodsBySelector(world) ==
  SelectSeq(ListNamespacedPod(world), LAMBDA p : ~p.deleting /\ p.phase = "Running")

IsPodBusyByAnnotation(pod) ==
  Lower(IF pod.ann = NoAnn THEN "false" ELSE pod.ann) = "true"

IsPodBusyByHttp(pod, successIsBusy) ==
  IF ~pod.ip THEN FALSE
  ELSE IF pod.phase # "Running" THEN FALSE
  ELSE IF pod.http = "error" THEN FALSE
  ELSE IF successIsBusy THEN pod.http = "2xx" ELSE pod.http # "2xx"

\* results of the exec probe that are an exception: k8s_stream raising before
\* a channel exists, run_forever raising on the open channel
ExecRaises == {"raise_open", "raise"}
\* results in which run_forever returned: the command's exit code, or none
\* when the timeout passed first
ExecReturns == {"exit0", "exit1", "timeout"}

\* _is_pod_busy_by_exec: exec.successIsBusy is not read; a command that did
\* not exit 0 makes the probe read the pod again
IsPodBusyByExec(pod) ==
  IF pod.phase # "Running" THEN FALSE
  ELSE IF pod.exec \in ExecRaises THEN FALSE
  ELSE IF pod.exec = "exit0" THEN TRUE
  ELSE IF pod.reread = "raise" THEN FALSE
  ELSE pod.reread = "Succeeded"

\* calls one probe makes
HttpGetsOf(pod) == IF pod.ip /\ pod.phase = "Running" THEN 1 ELSE 0
ExecsOf(pod) == IF pod.phase = "Running" THEN 1 ELSE 0
PodReadsOf(pod) == IF pod.phase = "Running" /\ pod.exec \in {"exit1", "timeout"} THEN 1 ELSE 0

\* _is_pod_busy_by_exec, its channel: opened by k8s_stream, closed by
\* resp.close() once run_forever has returned
ExecChannel(pod) ==
  IF pod.phase # "Running" \/ pod.exec = "raise_open" THEN [opened |-> 0, closed |-> 0]
  ELSE IF pod.exec = "raise" THEN [opened |-> 1, closed |-> 0]
  ELSE [opened |-> 1, closed |-> 1]

\* operate_hsj.py, _is_pod_busy_by_http: the same function
LegacyIsPodBusyByHttp(pod, successIsBusy) == IsPodBusyByHttp(pod, successIsBusy)

\* operate_hsj.py, _is_pod_busy_by_exec: the exit code, or False after an
\* exception, mapped through exec.successIsBusy; the pod is not read again
LegacyIsPodBusyByExec(pod, successIsBusy) ==
  IF pod.phase # "Running" THEN FALSE
  ELSE LET ok == IF pod.exec \in ExecRaises THEN FALSE ELSE pod.exec = "exit0"
       IN IF successIsBusy THEN ok ELSE ~ok

\* operate_hsj.py, _is_pod_busy_by_exec, its channel: never closed
LegacyExecChannel(pod) ==
  IF pod.phase # "Running" \/ pod.exec = "raise_open" THEN [opened |-> 0, closed |-> 0]
  ELSE [opened |-> 1, closed |-> 0]

\* operate_hsj.py, _pods_by_selector: the listed pods that are not being deleted
LegacyPodsBySelector(world) ==
  SelectSeq(ListNamespacedPod(world), LAMBDA p : ~p.deleting)

\* operate_hsj.py, _count_busy_idle: every listed pod is probed; a mode that
\* is neither http nor exec is probed by annotation
LegacyCountBusyIdle(h, world) ==
  LET pods == LegacyPodsBySelector(world)
      busy == CASE h.mode = "http" -> CountIf(pods, LAMBDA p : LegacyIsPodBusyByHttp(p, h.httpSuccessIsBusy))
                [] h.mode = "exec" -> CountIf(pods, LAMBDA p : LegacyIsPodBusyByExec(p, h.execSuccessIsBusy))
                [] OTHER -> CountIf(pods, LAMBDA p : IsPodBusyByAnnotation(p))
  IN [raised |-> FALSE, busy |-> busy, idle |-> Max(0, Len(pods) - busy), total |-> Len(pods)]

SumOver(seq, f(_)) ==
  LET S[i \in 0..Len(seq)] == IF i = 0 THEN 0 ELSE S[i - 1] + f(seq[i])
  IN S[Len(seq)]

NoCalls == [podLists |-> 0, storeReads |-> 0, podReads |-> 0, httpGets |-> 0, execs |-> 0]

\* a pod without a record taken as idle
ClassifyMissingAsIdle(all_statuses, pod_name) ==
  IF ~DictHas(all_statuses, pod_name) THEN "idle"
  ELSE IF DOMAIN all_statuses[pod_name] = {} THEN "idle"
  ELSE LET status_dict == all_statuses[pod_name]
           pod_status == IF DictHas(status_dict, "status") THEN status_dict.status ELSE "idle"
       IN IF pod_status \in PodStatus THEN pod_status ELSE "idle"

\* a record of status error counted as busy
ClassifyErrorAsBusy(all_statuses, pod_name) ==
  IF ~DictHas(all_statuses, pod_name) THEN "starting"
  ELSE LET status_dict == all_statuses[pod_name]
           pod_status == IF DictHas(status_dict, "status") THEN status_dict.status ELSE "idle"
       IN IF pod_status = "error" THEN "busy"
          ELSE IF pod_status \in PodStatus THEN pod_status ELSE "idle"

\* _count_busy_idle_redis, the loop body: how one listed pod is counted from
\* the dict the batch read returned. A pod without a (truthy) record counts as
\* starting, a record without status as idle, an unknown status as idle.
ClassifyStatus(all_statuses, pod_name) ==
  IF ~DictHas(all_statuses, pod_name) THEN "starting"
  ELSE IF DOMAIN all_statuses[pod_name] = {} THEN "starting"
  ELSE LET status_dict == all_statuses[pod_name]
           pod_status == IF DictHas(status_dict, "status") THEN status_dict.status ELSE "idle"
       IN IF pod_status \in PodStatus THEN pod_status ELSE "idle"

\* one store read for each listed pod instead of the batch read
StoreModeCallsPerPod(pods) ==
  [NoCalls EXCEPT !.podLists = 1, !.storeReads = Len(pods)]

\* _count_busy_idle_redis, the calls it makes: the pod list, and one
\* get_all_pods (one HGETALL) when a pod is listed
StoreModeCalls(pods) ==
  IF Len(pods) = 0 THEN [NoCalls EXCEPT !.podLists = 1]
  ELSE [NoCalls EXCEPT !.podLists = 1, !.storeReads = 1]

\* _count_busy_idle_redis
CountBusyIdleRedis(world, hgetallFails) ==
  LET pods == PodsBySelector(world)
      got == GetAllPods(HGetAll(world), hgetallFails)
      all_statuses == got.pods
      busy_count == CountIf(pods, LAMBDA p : ClassifyStatus(all_statuses, p.name) = "busy")
      idle_count == CountIf(pods, LAMBDA p : ClassifyStatus(all_statuses, p.name) = "idle")
  IN IF Len(pods) = 0
       THEN [raised |-> FALSE, busy |-> 0, idle |-> 0, total |-> 0,
             calls |-> StoreModeCalls(pods)]
     ELSE IF got.raised
       THEN [raised |-> FALSE, busy |-> Len(pods), idle |-> 0, total |-> Len(pods),
             calls |-> StoreModeCalls(pods)]
       ELSE [raised |-> FALSE, busy |-> busy_count, idle |-> idle_count, total |-> Len(pods),
             calls |-> StoreModeCalls(pods)]

\* an unknown mode taken as annotation mode, as the legacy variant
\* (operate_hsj.py) does, instead of raising
CountBusyIdleNoRaise(h, world, hgetallFails) ==
  IF h.mode = "redis" /\ h.monitor THEN CountBusyIdleRedis(world, hgetallFails)
  ELSE
    LET pods == PodsBySelector(world)
        running_pods == SelectSeq(pods, LAMBDA p : p.phase = "Running")
        busy_count ==
          CASE h.mode = "http" -> CountIf(running_pods, LAMBDA p : IsPodBusyByHttp(p, h.httpSuccessIsBusy))
            [] h.mode = "exec" -> CountIf(running_pods, LAMBDA p : IsPodBusyByExec(p))
            [] OTHER -> CountIf(running_pods, LAMBDA p : IsPodBusyByAnnotation(p))
    IN [raised |-> FALSE,
        busy |-> busy_count,
        idle |-> Max(0, Len(running_pods) - busy_count),
        total |-> Len(running_pods),
        calls |-> [NoCalls EXCEPT !.podLists = 1]]

\* _count_busy_idle
CountBusyIdle(h, world, hgetallFails) ==
  IF h.mode = "redis" /\ h.monitor THEN CountBusyIdleRedis(world, hgetallFails)
  ELSE
    LET pods == PodsBySelector(world)
        successed_pods == CountIf(pods, LAMBDA p : p.phase = "Succeeded")
        running_pods == SelectSeq(pods, LAMBDA p : p.phase = "Running")
        running_pods_count == Len(running_pods)
        busy_count ==
          CASE h.mode = "http" -> CountIf(running_pods, LAMBDA p : IsPodBusyByHttp(p, h.httpSuccessIsBusy))
            [] h.mode = "exec" -> CountIf(running_pods, LAMBDA p : IsPodBusyByExec(p))
            [] h.mode = "annotation" -> CountIf(running_pods, LAMBDA p : IsPodBusyByAnnotation(p))
            [] h.mode = "redis" -> CountIf(running_pods, LAMBDA p : IsPodBusyByAnnotation(p))
            [] OTHER -> 0
        idle == Max(0, running_pods_count - busy_count)
    IN [raised |-> h.mode \notin {"http", "exec", "annotation", "redis"},
        busy |-> busy_count + (IF h.execSuccessIsBusy THEN successed_pods ELSE 0),
        idle |-> idle,
        total |-> running_pods_count,
        calls |-> [NoCalls EXCEPT
                     !.podLists = 1,
                     !.httpGets = IF h.mode = "http" THEN SumOver(running_pods, HttpGetsOf) ELSE 0,
                     !.execs = IF h.mode = "exec" THEN SumOver(running_pods, ExecsOf) ELSE 0,
                     !.podReads = IF h.mode = "exec" THEN SumOver(running_pods, PodReadsOf) ELSE 0]]

\* _get_probe_conf: the mode is lower-cased, a missing mode is "annotation"
GetProbeConf(h) ==
  [h EXCEPT !.mode = IF IsNone(h.mode) THEN "annotation" ELSE Lower(h.mode[1])]

\* the bounds applied in the other order, so that minReplicas wins
DesiredActiveMinLast(busy, idle_target, min_r, max_r) ==
  LET d0 == busy + idle_target
      d1 == IF ~IsNone(max_r) THEN Min(d0, max_r[1]) ELSE d0
      d2 == IF ~IsNone(min_r) THEN Max(d1, min_r[1]) ELSE d1
  IN Max(0, d2)

\* _desired_active_replicas
DesiredActiveReplicas(busy, idle_target, min_r, max_r) ==
  LET d0 == busy + idle_target
      d1 == IF ~IsNone(min_r) THEN Max(d0, min_r[1]) ELSE d0
      d2 == IF ~IsNone(max_r) THEN Min(d1, max_r[1]) ELSE d1
  IN Max(0, d2)

\* ---------------------------------------------------------------- child Jobs
NewJobStatus == [active |-> 0, succeeded |-> 0, failed |-> 0]

JobIsActive(j) == j.status.active # 0
JobIsCompleted(j) == j.status.succeeded > 0 /\ j.status.active = 0
JobIsFailed(j) == j.status.failed > 0 /\ j.status.active = 0

\* _list_child_jobs: label selector hsj.paia.tech/name=<owner_name>
ListChildJobs(js, owner_name) == SelectSeq(js, LAMBDA j : j.label = owner_name)

\* a Job body without the owner label
CreateOneChildJobUnlabelled(suffix) ==
  [name |-> suffix,
   label |-> "",
   ownerReferences |-> <<[apiVersion |-> HsjApiVersion, kind |-> HsjKind, name |-> HsjName,
                          uid |-> HsjUid, controller |-> TRUE, blockOwnerDeletion |-> TRUE]>>,
   completions |-> 1,
   parallelism |-> 1,
   restartPolicy |-> "Never",
   status |-> NewJobStatus]

\* a Job body whose owner reference is not a controller reference
CreateOneChildJobNotController(suffix) ==
  [name |-> suffix,
   label |-> HsjName,
   ownerReferences |-> <<[apiVersion |-> HsjApiVersion, kind |-> HsjKind, name |-> HsjName,
                          uid |-> HsjUid, controller |-> FALSE, blockOwnerDeletion |-> TRUE]>>,
   completions |-> 1,
   parallelism |-> 1,
   restartPolicy |-> "Never",
   status |-> NewJobStatus]

\* a Job body that keeps the template's restartPolicy and parallelism
CreateOneChildJobAsTemplate(suffix) ==
  [name |-> suffix,
   label |-> HsjName,
   ownerReferences |-> <<[apiVersion |-> HsjApiVersion, kind |-> HsjKind, name |-> HsjName,
                          uid |-> HsjUid, controller |-> TRUE, blockOwnerDeletion |-> TRUE]>>,
   completions |-> 1,
   parallelism |-> 2,
   restartPolicy |-> "OnFailure",
   status |-> NewJobStatus]

\* _create_one_child_job: the body sent to create_namespaced_job; suffix stands
\* for the random 5-character suffix of the name.
CreateOneChildJob(suffix) ==
  [name |-> suffix,
   label |-> HsjName,
   ownerReferences |-> <<[apiVersion |-> HsjApiVersion, kind |-> HsjKind, name |-> HsjName,
                          uid |-> HsjUid, controller |-> TRUE, blockOwnerDeletion |-> TRUE]>>,
   completions |-> 1,
   parallelism |-> 1,
   restartPolicy |-> "Never",
   status |-> NewJobStatus]

\* every child Job counted as current, started or not
ScaleNeedAllJobs(js, desired_active) ==
  LET cur_active == Len(ListChildJobs(js, HsjName))
  IN IF cur_active < desired_active THEN desired_active - cur_active ELSE 0

\* one create too many (range(need + 1))
ScaleNeedOneMore(js, desired_active) ==
  LET cur_active == CountIf(ListChildJobs(js, HsjName), JobIsActive)
  IN IF cur_active < desired_active THEN desired_active - cur_active + 1 ELSE 0

\* a create also when the pool is exactly at its size (<= for <)
ScaleNeedWhenEqual(js, desired_active) ==
  LET cur_active == CountIf(ListChildJobs(js, HsjName), JobIsActive)
  IN IF cur_active <= desired_active THEN Max(1, desired_active - cur_active) ELSE 0

\* _scale_job_pool: the number of creates it asks for
ScaleNeed(js, desired_active) ==
  LET cur_active == CountIf(ListChildJobs(js, HsjName), JobIsActive)
  IN IF cur_active < desired_active THEN desired_active - cur_active ELSE 0

\* the pool after k creates have succeeded
JobsAfterCreates(js, k) ==
  js \o [i \in 1..k |-> CreateOneChildJob(Len(js) + i)]

\* ---------------------------------------------------------------- state
VARIABLES
  hsj,     \* the HotStandbyJob spec the handlers are called with, and monitor:
           \* whether memo holds a pod_status_monitor
  jobs,    \* the Jobs of the namespace, in creation order
  last,    \* what the last tick did and returned: <<>> or <<record>>
  counted, \* what the last run of the count procedure alone did: <<>> or <<record>>
  status,  \* the HSJ's status as the adapter last patched it: <<>> or <<record>>
  handled, \* what the last handler invocation did: <<>> or <<record>>
  now,     \* the clock (time.time(), datetime.now())
  hash,    \* the store's hash: for each pod name the value of its field, or NoField
  beat,    \* for each pod, the heartbeat in flight: <<>> or <<the value it read>>
  scope,   \* for each pod, where its use of the manipulator as a scope is
  did      \* what the last store operation did: <<>> or <<record>>

vars == <<hsj, jobs, last, counted, status, handled, now, hash, beat, scope, did>>

\* the handlers' variables and the store's
handlerVars == <<status, handled>>
storeVars == <<hash, beat, scope, did>>

\* The HotStandbyJob specs considered: every probe mode without replica
\* bounds, and every combination of replica bounds in annotation mode.
AllHSJs ==
  [mode : {Some("annotation"), Some("http"), Some("exec"), Some("redis"), Some("bogus")},
   monitor : BOOLEAN,
   idleTarget : 0..MaxIdleTarget,
   minReplicas : OptMinReplicas,
   maxReplicas : OptMaxReplicas,
   httpSuccessIsBusy : BOOLEAN,
   execSuccessIsBusy : BOOLEAN]

HSJs ==
  {h \in AllHSJs :
     /\ h.mode # Some("redis") => h.monitor
     /\ h.mode # Some("http") => h.httpSuccessIsBusy
     /\ h.mode # Some("exec") => h.execSuccessIsBusy
     /\ h.mode # Some("annotation") => IsNone(h.minReplicas) /\ IsNone(h.maxReplicas)}

Init ==
  /\ hsj \in HSJs
  /\ jobs = <<>>
  /\ last = <<>>
  /\ counted = <<>>
  /\ status = <<>>
  /\ handled = <<>>
  /\ now = 0
  /\ hash = [p \in PodNames |-> NoField]
  /\ beat = [p \in PodNames |-> <<>>]
  /\ scope = [p \in PodNames |-> "out"]
  /\ did = <<>>

\* a listed pod that is Running and not being deleted
Eligible(pod) == pod.present /\ pod.phase = "Running" /\ ~pod.deleting

\* the same cluster without the pods that are not Running or are being deleted
WithoutIneligible(world) ==
  [p \in PodNames |-> IF Eligible(world[p]) THEN world[p] ELSE [world[p] EXCEPT !.present = FALSE]]

\* a stored value that is no record, or a record with status starting or error
NeitherBusyNorIdle(v) ==
  \/ ~IsJson(v)
  \/ DOMAIN JsonLoads(v) = {}
  \/ (DictHas(JsonLoads(v), "status") /\ JsonLoads(v).status \in {"starting", "error"})

\* What the tick gets from the count procedure for the spec h on one content
\* of the cluster and of the store: the (busy, idle, total) it returns and
\* whether it raised, together with facts about what it was run on: eligible
\* (listed pods that are Running and not being deleted), hgetallFails (the
\* store read raised), neither (store mode: eligible pods whose record the read
\* did not give as busy or idle).
Observe(h, world, hgetallFails) ==
  LET conf == GetProbeConf(h)
      store == conf.mode = "redis" /\ conf.monitor
      r == CountBusyIdle(conf, world, hgetallFails)
  IN [raised |-> r.raised, busy |-> r.busy, idle |-> r.idle, total |-> r.total,
      eligible |-> Cardinality({p \in PodNames : Eligible(world[p])}),
      hgetallFails |-> hgetallFails,
      neither |-> IF store
                    THEN Cardinality({p \in PodNames :
                           Eligible(world[p]) /\ (hgetallFails \/ NeitherBusyNorIdle(world[p].raw))})
                    ELSE 0]

\* the part of the spec the count procedure depends on
ProbeKey(h) == <<GetProbeConf(h).mode, h.monitor, h.httpSuccessIsBusy, h.execSuccessIsBusy>>

Observations ==
  UNION {
    {<<ProbeKey(h), Observe(h, world, f)>> :
       world \in Worlds(GetProbeConf(h).mode, h.monitor),
       f \in (IF h.mode = Some("redis") /\ h.monitor THEN BOOLEAN ELSE {FALSE})} :
    h \in {g \in HSJs : g.idleTarget = 0 /\ IsNone(g.minReplicas) /\ IsNone(g.maxReplicas)}}

\* where a cluster API call of the tick raises
Faults == {"none", "list_pods", "list_jobs", "create", "relist"}

\* the status patch _sync_once returns
StatusPatch(c, desired_active, final) ==
  [busyCount |-> c.busy, idleCount |-> c.idle, activeCount |-> c.total,
   desiredActive |-> desired_active,
   childJobs |-> Len(final),
   activeJobs |-> CountIf(final, JobIsActive),
   completedJobs |-> CountIf(final, JobIsCompleted),
   failedJobs |-> CountIf(final, JobIsFailed)]

\* the dict returned although a call raised
ReturnAlways(fault, patch) == <<patch>>

\* what the handler gets from _sync_once once the pool is scaled: the dict,
\* or nothing when a call raised (the exception leaves _sync_once)
ReturnOf(fault, patch) == IF fault = "none" THEN <<patch>> ELSE <<>>

\* _sync_once, as called by reconcile and periodic.
\*   c      what the count procedure returns on the cluster's pods
\*   fault  the API call that raises, if any
\*   k      with fault = "create": the creates that succeed before it
\* last' records the tick: ok (it returned a patch), fault, creates (create
\* calls issued), count (what the count procedure returned), before (the child
\* Jobs _scale_job_pool listed), patch (the status patch returned), repeat
\* ("returned" or "raised" when this tick observed the same pods, probe results
\* and child Jobs as the tick before it, which returned a patch or raised after
\* observing them; "no" otherwise).
SyncOnce(c, fault, k) ==
  LET h == GetProbeConf(hsj)
      desired_active == DesiredActiveReplicas(c.busy, h.idleTarget, h.minReplicas, h.maxReplicas)
      before == ListChildJobs(jobs, HsjName)
      need == ScaleNeed(jobs, desired_active)
      made == IF fault = "create" THEN k ELSE need
      after == JobsAfterCreates(jobs, made)
      final == ListChildJobs(after, HsjName)
      repeat ==
        IF last = <<>> THEN "no"
        ELSE IF last[1].count = <<c>> /\ last[1].before = <<before>>
               THEN (IF last[1].ok THEN "returned" ELSE "raised")
               ELSE "no"
  IN IF fault = "list_pods" \/ c.raised \/ fault = "list_jobs"
       THEN /\ k = 0
            /\ IF fault = "list_pods" THEN TRUE ELSE (c.raised => fault = "none")
            /\ last' = <<[ok |-> FALSE,
                          fault |-> IF fault = "none" THEN "mode" ELSE fault,
                          creates |-> 0, count |-> <<>>, before |-> <<>>, patch |-> <<>>,
                          repeat |-> "no"]>>
            /\ UNCHANGED <<hsj, jobs, counted>>
       ELSE /\ fault = "create" => k < need
            /\ fault # "create" => k = 0
            /\ Len(jobs) + need <= MaxJobs
            /\ jobs' = after
            /\ last' = <<[ok |-> fault = "none",
                          fault |-> fault,
                          creates |-> IF fault = "create" THEN k + 1 ELSE need,
                          count |-> <<c>>,
                          before |-> <<before>>,
                          patch |-> ReturnOf(fault, StatusPatch(c, desired_active, final)),
                          repeat |-> repeat]>>
            /\ UNCHANGED <<hsj, counted>>

\* one call of _sync_once, on any content of the cluster and with any fault
SyncOnceCall ==
  \/ SyncOnce(<<>>, "list_pods", 0)
  \/ \E o \in Observations :
       /\ o[1] = ProbeKey(hsj)
       /\ \E fault \in Faults \ {"list_pods"} :
            \E k \in 0..MaxJobs :
              SyncOnce(o[2], fault, k)

\* a reconcile tick: what it does to the cluster and what it returns
Tick ==
  /\ SyncOnceCall
  /\ UNCHANGED <<handlerVars, now, storeVars>>

\* The cluster's Job controller reports a Job's pod as started.
JobStarts ==
  \E i \in 1..Len(jobs) :
    /\ jobs[i].status = NewJobStatus
    /\ jobs' = [jobs EXCEPT ![i].status.active = 1]
    /\ UNCHANGED <<hsj, last, counted, handlerVars, now, storeVars>>

\* The cluster's Job controller reports a Job's pod as finished.
JobSucceeds ==
  \E i \in 1..Len(jobs) :
    /\ jobs[i].status.active = 1
    /\ jobs' = [jobs EXCEPT ![i].status = [active |-> 0, succeeded |-> 1, failed |-> 0]]
    /\ UNCHANGED <<hsj, last, counted, handlerVars, now, storeVars>>

JobFails ==
  \E i \in 1..Len(jobs) :
    /\ jobs[i].status.active = 1
    /\ jobs' = [jobs EXCEPT ![i].status = [active |-> 0, succeeded |-> 0, failed |-> 1]]
    /\ UNCHANGED <<hsj, last, counted, handlerVars, now, storeVars>>

Next == Tick \/ JobStarts \/ JobSucceeds \/ JobFails

Spec == Init /\ [][Next]_vars

\* ---------------------------------------------------------------- the label selector
\* the labels ("k=v") pods carry and selectors ask for
Labels == {"app=worker", "pool=a"}

RECURSIVE Join(_)
\* ",".join(f"{k}={v}" ...): the items one after the other; the empty
\* dict gives the empty string
Join(items) ==
  IF items = {} THEN <<>>
  ELSE LET x == CHOOSE y \in items : TRUE IN <<x>> \o Join(items \ {x})

\* the requirements the API server reads from label_selector: one for each
\* item, none for the empty string
Requirements(sel) == {sel[i] : i \in DOMAIN sel}

\* the labels of a pod: none (a pod of another workload) or all
PodLabels == {{}, Labels}

\* the pods of the namespace, each with its labels
Namespaces(mode, monitor) ==
  [PodNames -> [labels : PodLabels, pod : PodCases(mode, monitor)]]

\* v1.list_namespaced_pod(namespace, label_selector=sel): what the cluster
\* returns, the pods of the namespace that meet every requirement of sel
ListedFor(ns, sel) ==
  [p \in PodNames |->
     [ns[p].pod EXCEPT !.present = ns[p].pod.present /\ Requirements(sel) \subseteq ns[p].labels]]

\* _sync_once up to desired_active, on a namespace: selector, the count and
\* the desired number of active children, with facts about the namespace
SelectorRecord(h, match_labels, ns) ==
  LET selector == match_labels
      r == CountBusyIdle(GetProbeConf(h), ListedFor(ns, Join(selector)), FALSE)
  IN [match_labels |-> match_labels,
      raised |-> r.raised, busy |-> r.busy, idle |-> r.idle, total |-> r.total,
      desired |-> IF r.raised THEN 0
                  ELSE DesiredActiveReplicas(r.busy, h.idleTarget, h.minReplicas, h.maxReplicas),
      running |-> Cardinality({p \in PodNames : Eligible(ns[p].pod)}),
      matching |-> Cardinality({p \in PodNames :
                                  Eligible(ns[p].pod) /\ match_labels \subseteq ns[p].labels})]

RunSelector ==
  \E match_labels \in SUBSET Labels :
    \E ns \in Namespaces(GetProbeConf(hsj).mode, hsj.monitor) :
      /\ counted' = <<SelectorRecord(hsj, match_labels, ns)>>
      /\ UNCHANGED <<hsj, jobs, last, handlerVars, now, storeVars>>

SelectorInit == Init /\ hsj.mode = Some("annotation")

SelectorSpec == SelectorInit /\ [][RunSelector]_vars

\* ---------------------------------------------------------------- pod-template labels
LabelKeys == {"app", JOB_OWNER_LABEL}
LabelValues == {"a", "b", HsjName}

\* label dicts: a value for some of the keys
LabelDicts == UNION {[ks -> LabelValues] : ks \in SUBSET LabelKeys}

\* a merge in which the first dict that has a key wins
MergeLabelsFirstWins(d1, d2, d3) == d1 @@ d2 @@ d3

\* _merge_labels: out.update(d) for each dict in turn, so that a later dict
\* overwrites the keys of the earlier ones
MergeLabels(d1, d2, d3) == d3 @@ d2 @@ d1

\* _create_one_child_job: the labels of the pod template, from the
\* jobTemplate's own labels, the selector and the owner label
PodTemplateLabels(tmpl_labels, selector) ==
  MergeLabels(tmpl_labels, selector, [k \in {JOB_OWNER_LABEL} |-> HsjName])

RunLabels ==
  \E tmpl_labels \in LabelDicts, selector \in LabelDicts :
    /\ counted' = <<[tmpl_labels |-> tmpl_labels, selector |-> selector,
                     labels |-> PodTemplateLabels(tmpl_labels, selector)]>>
    /\ UNCHANGED <<hsj, jobs, last, handlerVars, now, storeVars>>

LabelInit == Init /\ hsj = CHOOSE h \in HSJs : TRUE

LabelSpec == LabelInit /\ [][RunLabels]_vars

\* ---------------------------------------------------------------- one probe
Variants == {"parallelism", "legacy"}

\* the pods a probe of the given mode is run on
ProbePods(mode) ==
  IF mode = "http"
    THEN {[BasePod EXCEPT !.phase = ph, !.ip = ip, !.http = a] :
            ph \in {"Running", "Pending"}, ip \in BOOLEAN, a \in HttpAnswers}
    ELSE {[BasePod EXCEPT !.phase = ph, !.exec = e, !.reread = r] :
            ph \in {"Running", "Pending", "Succeeded"},
            e \in ExecReturns \cup ExecRaises,
            r \in {"Running", "Succeeded", "raise"}}

\* the cluster with that pod alone
OnePod(pod) == [p \in PodNames |-> IF p = 1 THEN pod ELSE AbsentPod]

\* one probe of one pod by a variant, and the count of the cluster that holds
\* that pod alone: busy (what the probe returned), channel (exec channels
\* opened and closed), gets (HTTP requests issued), tally (the count)
ProbeRecord(h, variant, pod) ==
  LET conf == GetProbeConf(h)
      http == conf.mode = "http"
      tally == IF variant = "legacy" THEN LegacyCountBusyIdle(conf, OnePod(pod))
               ELSE CountBusyIdle(conf, OnePod(pod), FALSE)
  IN [variant |-> variant, mode |-> conf.mode, pod |-> pod,
      successIsBusy |-> IF http THEN conf.httpSuccessIsBusy ELSE conf.execSuccessIsBusy,
      busy |-> CASE http /\ variant = "legacy" -> LegacyIsPodBusyByHttp(pod, conf.httpSuccessIsBusy)
                 [] http /\ variant # "legacy" -> IsPodBusyByHttp(pod, conf.httpSuccessIsBusy)
                 [] ~http /\ variant = "legacy" -> LegacyIsPodBusyByExec(pod, conf.execSuccessIsBusy)
                 [] OTHER -> IsPodBusyByExec(pod),
      channel |-> IF http THEN [opened |-> 0, closed |-> 0]
                  ELSE IF variant = "legacy" THEN LegacyExecChannel(pod) ELSE ExecChannel(pod),
      gets |-> IF http THEN HttpGetsOf(pod) ELSE 0,
      tally |-> [raised |-> tally.raised, busy |-> tally.busy, idle |-> tally.idle]]

RunProbe ==
  \E variant \in Variants :
    \E pod \in ProbePods(GetProbeConf(hsj).mode) :
      /\ counted' = <<ProbeRecord(hsj, variant, pod)>>
      /\ UNCHANGED <<hsj, jobs, last, handlerVars, now, storeVars>>

ProbeInit == Init /\ hsj.mode \in {Some("http"), Some("exec")}

ProbeSpec == ProbeInit /\ [][RunProbe]_vars

\* ---------------------------------------------------------------- the handlers and the status
MaxTime == 2

\* the dict _sync_once returns, with its lastSyncTime
Result(tick, t) ==
  IF tick.patch = <<>> THEN <<>>
  ELSE <<[counts |-> tick.patch[1], lastSyncTime |-> t]>>

\* The adapter (kopf) patches the dict a handler returns into the HSJ's
\* status; a handler that raises or returns None leaves the status as it is.
ApplyResult(st, result) == IF result = <<>> THEN st ELSE result

\* reconcile, the handler of create, update and resume: it calls _sync_once
\* and lets its exception through.
Reconcile ==
  /\ now < MaxTime
  /\ SyncOnceCall
  /\ now' = now + 1
  /\ status' = ApplyResult(status, Result(last'[1], now'))
  /\ \E trigger \in {"create", "update", "resume"} :
       handled' = <<[trigger |-> trigger, raised |-> ~last'[1].ok, event |-> "none"]>>
  /\ UNCHANGED storeVars

\* periodic, the handler of the timer: it calls _sync_once; on an exception
\* it records an event of reason ReconcileError on the HSJ and raises again.
Periodic ==
  /\ now < MaxTime
  /\ SyncOnceCall
  /\ now' = now + 1
  /\ status' = ApplyResult(status, Result(last'[1], now'))
  /\ handled' = <<[trigger |-> "timer", raised |-> ~last'[1].ok,
                   event |-> IF last'[1].ok THEN "none" ELSE "ReconcileError"]>>
  /\ UNCHANGED storeVars

\* The handlers on an HSJ in annotation mode or with an invalid mode, without
\* replica bounds.
HandlerInit ==
  /\ Init
  /\ hsj.mode \in {Some("annotation"), Some("bogus")}
  /\ IsNone(hsj.minReplicas)
  /\ IsNone(hsj.maxReplicas)

HandlerNext ==
  \/ Reconcile
  \/ Periodic
  \/ JobStarts

HandlerSpec == HandlerInit /\ [][HandlerNext]_vars

\* ---------------------------------------------------------------- the count procedure alone
\* One call of _count_busy_idle with the spec's probe configuration on one
\* content of the cluster and the store. counted' records what it returned and
\* the calls it made, with facts about what it was run on: listed (pods the
\* list call returned), eligible (those Running and not being deleted), bare
\* (what the same call returns on the cluster without the other pods).
\* what the store holds for a pod: no field, a value that is not a record, or
\* a record and its status
RecordStatus(raw) ==
  IF raw = NoField THEN "absent"
  ELSE IF ~IsJson(raw) THEN "unparsable"
  ELSE IF ~DictHas(JsonLoads(raw), "status") THEN "nostatus"
  ELSE JsonLoads(raw).status

\* the number of Running, undeleted pods of the cluster whose stored value is
\* of one of the given kinds
RecordsOf(world, kinds) ==
  Cardinality({p \in PodNames : Eligible(world[p]) /\ RecordStatus(world[p].raw) \in kinds})

CountRecord(h, world, hgetallFails) ==
  LET conf == GetProbeConf(h)
      r == CountBusyIdle(conf, world, hgetallFails)
      b == CountBusyIdle(conf, WithoutIneligible(world), hgetallFails)
  IN [store |-> conf.mode = "redis" /\ conf.monitor,
      raised |-> r.raised, busy |-> r.busy, idle |-> r.idle, total |-> r.total,
      calls |-> r.calls,
      listed |-> Len(ListNamespacedPod(world)),
      eligible |-> Cardinality({p \in PodNames : Eligible(world[p])}),
      read |-> ~hgetallFails,
      records |-> [busy |-> RecordsOf(world, {"busy"}),
                   idle |-> RecordsOf(world, {"idle"}),
                   neither |-> RecordsOf(world, {"starting", "error", "absent", "unparsable"})],
      bare |-> [busy |-> b.busy, idle |-> b.idle, total |-> b.total]]

RunCount ==
  \E world \in Worlds(GetProbeConf(hsj).mode, hsj.monitor) :
    \E hgetallFails \in BOOLEAN :
      /\ counted' = <<CountRecord(hsj, world, hgetallFails)>>
      /\ UNCHANGED <<hsj, jobs, last, handlerVars, now, storeVars>>

CountSpec == Init /\ [][RunCount]_vars

\* ---------------------------------------------------------------- the timer with nothing failing
\* A tick in which no API call raises, that observes the busy count the tick
\* before it observed, and whose demand fits the pool the model holds.
SteadyTick ==
  \E o \in Observations :
    /\ o[1] = ProbeKey(hsj)
    /\ ~o[2].raised
    /\ last # <<>> => last[1].count[1].busy = o[2].busy
    /\ DesiredActiveReplicas(o[2].busy, hsj.idleTarget, hsj.minReplicas, hsj.maxReplicas) <= MaxJobs
    /\ SyncOnce(o[2], "none", 0)
    /\ UNCHANGED <<handlerVars, now, storeVars>>

LiveNext == SteadyTick \/ JobStarts

\* The timer fires again and again, and the Job controller reports every
\* created Job as started.
LiveSpec == Init /\ [][LiveNext]_vars /\ WF_vars(SteadyTick) /\ WF_vars(JobStarts)

\* ---------------------------------------------------------------- the store's users
\* redis HSET / HDEL of one field; a call that raises leaves the hash alone
HSet(h, field, value) == [h EXCEPT ![field] = value]
HDel(h, fields) == [f \in DOMAIN h |-> IF f \in fields THEN NoField ELSE h[f]]

\* register reporting success whatever the write did
RegisterReportingSuccess(h, pod_name, initial_status, t, fails) ==
  IF fails THEN [hash |-> h, ret |-> TRUE]
  ELSE [hash |-> HSet(h, pod_name, StatusData(initial_status, t)), ret |-> TRUE]

\* PodStatusManipulator.register: the exception of the write is caught and
\* False returned
Register(h, pod_name, initial_status, t, fails) ==
  IF fails THEN [hash |-> h, ret |-> FALSE]
  ELSE [hash |-> HSet(h, pod_name, StatusData(initial_status, t)), ret |-> TRUE]

\* PodStatusManipulator.unregister
Unregister(h, pod_name, fails) ==
  IF fails THEN [hash |-> h, ret |-> FALSE]
  ELSE [hash |-> HDel(h, {pod_name}), ret |-> TRUE]

\* PodStatusManipulator.set_status
SetStatusOf(h, pod_name, s, t, fails) ==
  IF fails THEN [hash |-> h, ret |-> FALSE]
  ELSE [hash |-> HSet(h, pod_name, StatusData(s, t)), ret |-> TRUE]

\* a scope that unregisters only when its body completed
ScopeExitNormalOnly(h, pod_name, raised, fails) ==
  IF raised THEN [hash |-> h, ret |-> TRUE] ELSE Unregister(h, pod_name, fails)

\* __exit__: unregister, whether the body raised or not
ScopeExit(h, pod_name, raised, fails) == Unregister(h, pod_name, fails)

\* the record a heartbeat writes over a record it read, as a fresh record
HeartbeatDataAsRegister(current_data, t) == StatusData("idle", t)

\* heartbeat, the record written over the one it read: the dict it read with
\* updated_at set to the time of the write
HeartbeatData(current_data, t) ==
  LET status_dict == JsonLoads(current_data)
  IN JsonDumps([k \in DOMAIN status_dict \cup {"updated_at"} |->
                  IF k = "updated_at" THEN t ELSE status_dict[k]])

\* heartbeat after its read returned current_data: an absent field is
\* registered as idle, a value that is not JSON makes json.loads raise, and
\* every exception is caught and False returned
HeartbeatFinish(h, pod_name, current_data, t, fails) ==
  IF current_data = NoField THEN Register(h, pod_name, "idle", t, fails)
  ELSE IF ~IsJson(current_data) \/ fails THEN [hash |-> h, ret |-> FALSE]
  ELSE [hash |-> HSet(h, pod_name, HeartbeatData(current_data, t)), ret |-> TRUE]

\* data.get("updated_at", 0)
UpdatedAt(data) == IF DictHas(data, "updated_at") THEN data.updated_at ELSE 0

\* PodStatusMonitor.cleanup_stale_pods: the stale pods among those
\* get_all_pods returned
StalePods(pods, current_time, timeout_seconds) ==
  {pod_name \in DOMAIN pods : current_time - UpdatedAt(pods[pod_name]) > timeout_seconds}

\* PodStatusMonitor.cleanup_stale_pods: one batch read, one HDEL of the stale
\* fields whose reply is the number of fields removed; 0 when nothing is stale
\* or when the HDEL raised
CleanupStalePods(h, current_time, timeout_seconds, hgetallFails, hdelFails) ==
  LET pods == GetAllPods(h, hgetallFails).pods
      stale_pods == StalePods(pods, current_time, timeout_seconds)
  IN IF stale_pods = {} THEN [hash |-> h, ret |-> 0]
     ELSE IF hdelFails THEN [hash |-> h, ret |-> 0]
     ELSE [hash |-> HDel(h, stale_pods),
           ret |-> Cardinality({f \in stale_pods : h[f] # NoField})]

Timeouts == 0..1

\* the pods that run a manipulator; the other fields of the hash belong to
\* pods of earlier runs
Workers == {1}

Did(op, pod, ok, failed, arg, removed) ==
  <<[op |-> op, pod |-> pod, ok |-> ok, failed |-> failed, arg |-> arg, removed |-> removed]>>

\* with PodStatusManipulator(...) as m: the scope is entered
Enter(p) ==
  /\ scope[p] = "out"
  /\ \E fails \in BOOLEAN :
       LET r == Register(hash, p, "starting", now, fails)
       IN /\ hash' = r.hash
          /\ did' = Did("enter", p, r.ret, fails, "", 0)
  /\ scope' = [scope EXCEPT ![p] = "in"]
  /\ UNCHANGED <<hsj, jobs, last, counted, handlerVars, now, beat>>

\* the scope is left, its body having completed or raised
Exit(p) ==
  /\ scope[p] = "in"
  /\ \E raised \in BOOLEAN, fails \in BOOLEAN :
       LET r == ScopeExit(hash, p, raised, fails)
       IN /\ hash' = r.hash
          /\ did' = Did("exit", p, r.ret, fails, IF raised THEN "raised" ELSE "completed", 0)
  /\ scope' = [scope EXCEPT ![p] = "left"]
  /\ UNCHANGED <<hsj, jobs, last, counted, handlerVars, now, beat>>

\* set_status(s) by the pod inside its scope
SetStatus(p) ==
  /\ scope[p] = "in"
  /\ \E s \in PodStatus, fails \in BOOLEAN :
       LET r == SetStatusOf(hash, p, s, now, fails)
       IN /\ hash' = r.hash
          /\ did' = Did("set_status", p, r.ret, fails, s, 0)
  /\ UNCHANGED <<hsj, jobs, last, counted, handlerVars, now, beat, scope>>

\* heartbeat, its read of the pod's field; a read that raises ends the call
HeartbeatRead(p) ==
  /\ beat[p] = <<>>
  /\ \E fails \in BOOLEAN :
       IF fails
         THEN /\ did' = Did("heartbeat", p, FALSE, TRUE, "", 0)
              /\ UNCHANGED beat
         ELSE /\ beat' = [beat EXCEPT ![p] = <<hash[p]>>]
              /\ did' = Did("hget", p, TRUE, FALSE, "", 0)
  /\ UNCHANGED <<hsj, jobs, last, counted, handlerVars, now, hash, scope>>

\* heartbeat, from the value it read to its return
HeartbeatWrite(p) ==
  /\ beat[p] # <<>>
  /\ \E fails \in BOOLEAN :
       LET r == HeartbeatFinish(hash, p, beat[p][1], now, fails)
       IN /\ hash' = r.hash
          /\ did' = Did("heartbeat", p, r.ret, fails,
                        IF hash[p] = beat[p][1] THEN "alone" ELSE "overlapped", 0)
  /\ beat' = [beat EXCEPT ![p] = <<>>]
  /\ UNCHANGED <<hsj, jobs, last, counted, handlerVars, now, scope>>

\* cleanup_stale_pods(timeout_seconds) by the monitor
CleanupStale ==
  /\ \E timeout_seconds \in Timeouts, hgetallFails \in BOOLEAN, hdelFails \in BOOLEAN :
       LET r == CleanupStalePods(hash, now, timeout_seconds, hgetallFails, hdelFails)
       IN /\ hash' = r.hash
          /\ did' = Did("cleanup", 0, TRUE, hgetallFails \/ hdelFails, timeout_seconds, r.ret)
  /\ UNCHANGED <<hsj, jobs, last, counted, handlerVars, now, beat, scope>>

\* time.time() advances
Elapse ==
  /\ now < MaxTime
  /\ now' = now + 1
  /\ UNCHANGED <<hsj, jobs, last, counted, handlerVars, storeVars>>

\* the values found in the hash when the pods start: no field, a value some
\* other writer left that is not JSON, or a record of an earlier run
StoreInit ==
  /\ hsj = CHOOSE h \in HSJs : TRUE
  /\ jobs = <<>> /\ last = <<>> /\ counted = <<>>
  /\ status = <<>> /\ handled = <<>> /\ now = 0
  /\ hash \in [PodNames -> {NoField, NotJson, StatusData("busy", 0)}]
  /\ beat = [p \in PodNames |-> <<>>]
  /\ scope = [p \in PodNames |-> "out"]
  /\ did = <<>>

StoreNext ==
  \/ \E p \in Workers : Enter(p)
  \/ \E p \in Workers : Exit(p)
  \/ \E p \in Workers : SetStatus(p)
  \/ \E p \in Workers : HeartbeatRead(p)
  \/ \E p \in Workers : HeartbeatWrite(p)
  \/ CleanupStale
  \/ Elapse

StoreSpec == StoreInit /\ [][StoreNext]_vars

\* ---------------------------------------------------------------- the legacy reconciler
\* operate_hsj.py: Jobs are created while the matched pods are fewer than
\* desired and deleted, oldest first, while they are more.
MaxLegacy == 4

\* scaleDownDelaySeconds, in units of the clock
ScaleDownDelay == 1

\* operate_hsj.py, _desired_replicas
LegacyDesiredReplicas(busy, idle_target, min_r, max_r) ==
  LET d0 == busy + idle_target
      d1 == IF ~IsNone(min_r) THEN Max(d0, min_r[1]) ELSE d0
  IN IF ~IsNone(max_r) THEN Min(d1, max_r[1]) ELSE d1

RECURSIVE SortByCreation(_)
\* owned_jobs.sort(key=creation_timestamp): oldest first, equal times in the
\* order listed
SortByCreation(js) ==
  IF js = <<>> THEN <<>>
  ELSE LET oldest == CHOOSE i \in 1..Len(js) :
                       /\ \A k \in 1..Len(js) : js[i].cts <= js[k].cts
                       /\ \A k \in 1..(i - 1) : js[k].cts > js[i].cts
       IN <<js[oldest]>> \o SortByCreation(SubSeq(js, 1, oldest - 1) \o SubSeq(js, oldest + 1, Len(js)))

\* a Job of any age may be deleted
LegacyOldEnoughAlways(j, t, scale_down_delay) == TRUE

\* the test of the delay: `if now - cts < scale_down_delay: continue`
LegacyOldEnough(j, t, scale_down_delay) == ~(t - j.cts < scale_down_delay)

\* the Jobs the scale-down loop calls delete for when no delete raises: in
\* the sorted order, those old enough, until `over` deletes have been made
LegacyToDelete(owned_jobs, over, t, scale_down_delay) ==
  LET old == SelectSeq(owned_jobs, LAMBDA j : LegacyOldEnough(j, t, scale_down_delay))
  IN SubSeq(old, 1, Min(over, Len(old)))

\* the suffix of the next Job: one more than the largest in use, or 0
LegacyNextSuffix(owned_jobs) ==
  IF owned_jobs = <<>> THEN 0
  ELSE 1 + CHOOSE m \in {owned_jobs[i].name : i \in 1..Len(owned_jobs)} :
             \A i \in 1..Len(owned_jobs) : owned_jobs[i].name <= m

\* operate_hsj.py, _create_job: the Job, named by its suffix
LegacyCreateJob(idx, t) == [name |-> idx, cts |-> t]

DeleteFaults == {"none", "404", "500"}

\* operate_hsj.py, _sync_once on a count (busy), the number of matched pods
\* (active_now) and delete calls of which the one at position `at` answers
\* with fault: 404 (the Job is gone already, taken as success) or 500 (the
\* exception leaves _sync_once). last' records the tick: before (the owned
\* Jobs, sorted), over, deleted (the Jobs delete was called for and did not
\* raise), created, fault, ok.
LegacySyncOnce(busy, active_now, fault, at) ==
  LET desired == LegacyDesiredReplicas(busy, hsj.idleTarget, hsj.minReplicas, hsj.maxReplicas)
      owned_jobs == SortByCreation(jobs)
      to_create == IF active_now < desired THEN desired - active_now ELSE 0
      over == IF active_now > desired THEN active_now - desired ELSE 0
      planned == LegacyToDelete(owned_jobs, over, now, ScaleDownDelay)
      raises == fault = "500" /\ at <= Len(planned)
      deleted == IF raises THEN SubSeq(planned, 1, at - 1) ELSE planned
      gone == {deleted[i].name : i \in 1..Len(deleted)}
      next_suffix == LegacyNextSuffix(owned_jobs)
  IN /\ fault # "none" => at <= Len(planned)
     /\ fault = "none" => at = 1
     /\ Len(jobs) + to_create <= MaxLegacy
     /\ jobs' = SelectSeq(jobs, LAMBDA j : j.name \notin gone)
                  \o [i \in 1..to_create |-> LegacyCreateJob(next_suffix + i - 1, now)]
     /\ last' = <<[ok |-> ~raises, fault |-> fault,
                   desired |-> desired, active_now |-> active_now,
                   before |-> owned_jobs, over |-> over,
                   deleted |-> deleted, created |-> to_create]>>
     /\ UNCHANGED <<hsj, counted, handlerVars, now, storeVars>>

LegacyTick ==
  \E active_now \in 0..MaxLegacy :
    \E busy \in 0..active_now :
      \E fault \in DeleteFaults :
        \E at \in 1..2 :
          LegacySyncOnce(busy, active_now, fault, at)

LegacyInit ==
  /\ Init
  /\ hsj.mode = Some("annotation")
  /\ hsj.idleTarget = 1
  /\ IsNone(hsj.minReplicas)

LegacyNext ==
  \/ LegacyTick
  \/ Elapse

LegacySpec == LegacyInit /\ [][LegacyNext]_vars

TypeOK ==
  /\ hsj \in HSJs
  /\ Len(jobs) <= MaxJobs
  /\ Len(last) <= 1
  /\ Len(counted) <= 1
  /\ Len(status) <= 1
  /\ Len(handled) <= 1
  /\ now \in 0..MaxTime
  /\ DOMAIN hash = PodNames
  /\ \A p \in PodNames : Len(beat[p]) <= 1 /\ scope[p] \in {"out", "in", "left"}
  /\ Len(did) <= 1

\* ---------------------------------------------------------------- properties
\* the last tick returned a status patch
Returned == last # <<>> /\ last[1].ok
Patch == last[1].patch[1]
Count == last[1].count[1]
StoreMode == GetProbeConf(hsj).mode = "redis" /\ hsj.monitor
ChildJobs == ListChildJobs(jobs, HsjName)
ActiveChildJobs == CountIf(ChildJobs, JobIsActive)

OwnedByHsj(j) ==
  \E r \in 1..Len(j.ownerReferences) :
    /\ j.ownerReferences[r].uid = HsjUid
    /\ j.ownerReferences[r].controller
    /\ j.ownerReferences[r].blockOwnerDeletion

\* max(0, min(M or infinity, max(b + i, m or 0)))
ClosedForm(b, i, m, M) ==
  LET lower == Max(b + i, IF IsNone(m) THEN 0 ELSE m[1])
  IN Max(0, IF IsNone(M) THEN lower ELSE Min(M[1], lower))

\* C1: the desiredActive of every returned status patch is
\* max(0, min(M or infinity, max(b + i, m or 0))) for the observed busy count b,
\* idleTarget i, minReplicas m and maxReplicas M; so it is at most M when M is
\* set, at least b + i unless M is below b + i, and M when m > M.
C1_DesiredActiveClosedForm ==
  Returned =>
    LET b == Patch.busyCount
        i == hsj.idleTarget
        m == hsj.minReplicas
        M == hsj.maxReplicas
        d == Patch.desiredActive
    IN /\ d = ClosedForm(b, i, m, M)
       /\ ~IsNone(M) => d <= M[1]
       /\ (IsNone(M) \/ M[1] >= b + i) => d >= b + i
       /\ (~IsNone(m) /\ ~IsNone(M) /\ m[1] > M[1]) => d = M[1]

\* a tick returned with minReplicas 1 above maxReplicas 0 and a busy pod
C1_Witness ==
  /\ Returned
  /\ hsj.minReplicas = Some(1)
  /\ hsj.maxReplicas = Some(0)
  /\ Patch.busyCount >= 1
  /\ Patch.desiredActive = 0

\* C2 as stated: in every returned status patch
\* idleCount = max(0, activeCount - busyCount).
C2_IdleIsActiveMinusBusy ==
  Returned => Patch.idleCount = Max(0, Patch.activeCount - Patch.busyCount)

\* C2, amended: in every returned status patch activeCount is the number of
\* listed pods that are Running and not being deleted, and idleCount =
\* max(0, activeCount - busyCount - neither), where neither is 0 outside store
\* mode and in store mode the number of those pods whose record the store read
\* did not return or returned with status starting or error.
C2_IdleExcludesStartingAndError ==
  Returned =>
    /\ Patch.activeCount = Count.eligible
    /\ ~StoreMode => Count.neither = 0
    /\ Patch.idleCount = Max(0, Patch.activeCount - Patch.busyCount - Count.neither)

\* a store-mode tick returned with a busy pod and a pod that is neither
C2_Witness ==
  /\ Returned
  /\ StoreMode
  /\ Count.neither >= 1
  /\ Patch.busyCount >= 1
  /\ Patch.idleCount = 0

\* C3: in store mode, a tick whose store read failed with n >= 1 Running
\* matched pods listed reports busyCount = n and idleCount = 0 and sizes the
\* pool from busy = n.
C3_FailedStoreReadCountsAllBusy ==
  (Returned /\ StoreMode /\ Count.hgetallFails /\ Count.eligible >= 1) =>
    /\ Patch.busyCount = Count.eligible
    /\ Patch.idleCount = 0
    /\ Patch.desiredActive =
         ClosedForm(Count.eligible, hsj.idleTarget, hsj.minReplicas, hsj.maxReplicas)

\* C4 as stated: a tick that observes the same pods, probe results and child
\* Jobs as the tick before it issues no Job create.
C4_SameInputsNoCreate ==
  (last # <<>> /\ last[1].repeat # "no") => last[1].creates = 0

\* C4, amended: a tick that observes the same pods, probe results and child
\* Jobs as the tick before it, when that tick returned a status patch, issues
\* no Job create (the reconciler issues no Job patch or delete at all).
C4_SameInputsAfterReturnNoCreate ==
  (last # <<>> /\ last[1].repeat = "returned") => last[1].creates = 0

\* a tick returned after a returned tick with the same inputs, with an active
\* child Job holding the pool at its size
C4_Witness ==
  /\ Returned
  /\ last[1].repeat = "returned"
  /\ Patch.desiredActive >= 1
  /\ Patch.activeJobs = Patch.desiredActive

\* the pool is at its size and the last tick had nothing to create
SteadyState ==
  /\ Returned
  /\ last[1].creates = 0
  /\ ActiveChildJobs = Patch.desiredActive

\* C5: with the spec and the busy count constant, every create succeeding,
\* every created Job reported active and the timer firing again and again, the
\* system reaches and stays in a state where the active child Jobs are
\* desiredActive and ticks create nothing.
C5_ReachesSteadyState ==
  (hsj.mode # Some("bogus")) => <>[]SteadyState

\* a step that is a returned tick following a returned tick
NextTickReturned ==
  /\ last # <<>>
  /\ last[1].ok
  /\ last' # last
  /\ last' # <<>>
  /\ last'[1].ok

C7_FirstTickCreatesIdleTarget ==
  (/\ Returned
   /\ last[1].before[1] = <<>>
   /\ Count.eligible = 0
   /\ hsj.minReplicas \in {None, Some(0)}) =>
    LET k == hsj.idleTarget
        expected == IF IsNone(hsj.maxReplicas) THEN k ELSE Min(k, hsj.maxReplicas[1])
    IN /\ last[1].creates = expected
       /\ Patch.childJobs = expected
       /\ Len(jobs) = expected
       /\ \A n \in 1..Len(jobs) : jobs[n].label = HsjName /\ OwnedByHsj(jobs[n])

\* scenario S1: idleTarget 2, minReplicas 0, maxReplicas 10, no pods, no
\* Jobs; after the tick 2 Jobs exist
C7_Witness ==
  /\ Returned
  /\ last[1].before[1] = <<>>
  /\ Count.eligible = 0
  /\ hsj.idleTarget = 2
  /\ hsj.minReplicas = Some(0)
  /\ hsj.maxReplicas = Some(10)
  /\ Len(jobs) = 2

\* C8: in every reachable state every Job with the label
\* hsj.paia.tech/name=<hsj name> has an owner reference with the HSJ's uid,
\* controller true and blockOwnerDeletion true.
C8_ChildJobsOwned ==
  \A n \in 1..Len(jobs) : jobs[n].label = HsjName => OwnedByHsj(jobs[n])

\* two child Jobs exist, one active and one finished
C8_Witness ==
  /\ Len(ChildJobs) >= 2
  /\ \E n \in 1..Len(ChildJobs) : JobIsActive(ChildJobs[n])
  /\ \E n \in 1..Len(ChildJobs) : JobIsCompleted(ChildJobs[n])

\* C9: in every probe mode the count procedure returns what it returns on the
\* cluster without the pods that are being deleted or not Running, and its
\* total is the number of Running pods not being deleted.
C9_OnlyRunningUndeletedPodsCount ==
  (counted # <<>> /\ ~counted[1].raised) =>
    /\ counted[1].busy = counted[1].bare.busy
    /\ counted[1].idle = counted[1].bare.idle
    /\ counted[1].total = counted[1].bare.total
    /\ counted[1].total = counted[1].eligible

\* a count over a busy Running pod and a pod that is being deleted or not
\* Running
C9_Witness ==
  /\ counted # <<>>
  /\ ~counted[1].raised
  /\ counted[1].listed > counted[1].eligible
  /\ counted[1].eligible >= 1
  /\ counted[1].busy >= 1

\* C10: in store mode one count procedure makes exactly one pod-list call, at
\* most one batch store read, and no per-pod read, HTTP probe or exec probe.
C10_StoreModeCallsConstant ==
  (counted # <<>> /\ counted[1].store) =>
    /\ counted[1].calls.podLists = 1
    /\ counted[1].calls.storeReads <= 1
    /\ counted[1].calls.podReads = 0
    /\ counted[1].calls.httpGets = 0
    /\ counted[1].calls.execs = 0

\* a store-mode count over MaxPods Running pods
C10_Witness ==
  /\ counted # <<>>
  /\ counted[1].store
  /\ counted[1].eligible = MaxPods
  /\ counted[1].calls.storeReads = 1
\* the probe mode of the spec is none of annotation, http, exec, redis
InvalidMode == GetProbeConf(hsj).mode \notin {"annotation", "http", "exec", "redis"}

\* C13: with a probe mode that is none of annotation, http, exec, redis,
\* every tick raises, returns no status patch and issues no Job create (so no
\* Job exists; the reconciler issues no Job patch or delete in any tick).
C13_InvalidModeRaises ==
  InvalidMode =>
    /\ jobs = <<>>
    /\ last # <<>> =>
         /\ ~last[1].ok
         /\ last[1].creates = 0
         /\ last[1].patch = <<>>

\* a tick ran with an invalid mode, listed the pods and raised on the mode
C13_Witness ==
  /\ InvalidMode
  /\ last # <<>>
  /\ last[1].fault = "mode"
\* the last tick got through scaling with no create failing
Scaled == last # <<>> /\ last[1].fault \in {"none", "relist"}

\* C18: a tick that finds fewer active child Jobs than desired_active, and in
\* which no create fails, issues exactly desired_active - current_active
\* creates, each of a Job with completions 1, parallelism 1 and restartPolicy
\* Never, and removes no Job.
C18_ScaleUpCreatesShortfall ==
  Scaled =>
    LET listed == last[1].before[1]
        current_active == CountIf(listed, JobIsActive)
        desired_active ==
          DesiredActiveReplicas(Count.busy, hsj.idleTarget, hsj.minReplicas, hsj.maxReplicas)
    IN current_active < desired_active =>
         /\ last[1].creates = desired_active - current_active
         /\ Len(jobs) = Len(listed) + last[1].creates
         /\ \A n \in (Len(listed) + 1)..Len(jobs) :
              /\ jobs[n].completions = 1
              /\ jobs[n].parallelism = 1
              /\ jobs[n].restartPolicy = "Never"

\* a tick found one active child Job where two were desired and created one
C18_Witness ==
  /\ Scaled
  /\ Returned
  /\ CountIf(last[1].before[1], JobIsActive) = 1
  /\ Patch.desiredActive = 2
  /\ last[1].creates = 1
\* a step that is a handler invocation
HandlerStep == now' # now /\ handled' # <<>>

\* C11: a tick that fails, at the pod list, the mode, the Job list or a Job
\* create, returns no status patch and leaves the HSJ's status, its counts and
\* its lastSyncTime, as it was; the status changes only in a tick that
\* completes, and then carries that tick's counts and time.
C11_FailedTickKeepsStatus ==
  [][HandlerStep =>
       IF last'[1].ok
         THEN /\ last'[1].fault = "none"
              /\ status' # <<>>
              /\ status'[1].counts = last'[1].patch[1]
              /\ status'[1].lastSyncTime = now'
         ELSE /\ last'[1].patch = <<>>
              /\ status' = status]_vars

\* a tick failed at a Job create after an earlier tick had returned: the
\* status still carries the earlier tick's time
C11_Witness ==
  /\ status # <<>>
  /\ last # <<>>
  /\ last[1].fault = "create"
  /\ status[1].lastSyncTime < now

\* C12: after every handler invocation whose tick failed, whatever the
\* trigger, an event of reason ReconcileError is recorded on the HSJ and the
\* exception went to the adapter.
C12_FailedTickRecordsEvent ==
  (handled # <<>> /\ last # <<>> /\ ~last[1].ok) =>
    /\ handled[1].event = "ReconcileError"
    /\ handled[1].raised
\* steps of the scope of pod p
Entered(p) == scope[p] = "out" /\ scope'[p] = "in"
Left(p) == scope[p] = "in" /\ scope'[p] = "left"

\* C15 as amended: when the store calls succeed, entering the scope sets the
\* pod's field to a record of status starting, and leaving it, the body
\* having completed or raised, removes the field; a store call that raises
\* is swallowed and the hash stays as it was.
C15_ScopeRegistersUnregisters ==
  [][\A p \in PodNames :
       /\ Entered(p) => IF did'[1].ok THEN hash' = HSet(hash, p, StatusData("starting", now))
                                      ELSE hash' = hash
       /\ Left(p) => IF did'[1].ok THEN hash' = HDel(hash, {p})
                                   ELSE hash' = hash]_vars

\* the scope of a pod was left by an exception of its body and the field is gone
C15_Witness ==
  /\ scope[1] = "left"
  /\ did # <<>> /\ did[1].op = "exit" /\ did[1].arg = "raised" /\ did[1].ok
  /\ hash[1] = NoField

\* C15 as stated: on entry the field is set with status starting, and once
\* the scope is left the field is absent, whatever happened.
C15_ScopeAlwaysUnregisters ==
  [][\A p \in PodNames :
       /\ Entered(p) => hash'[p] = StatusData("starting", now)
       /\ Left(p) => hash'[p] = NoField]_vars

\* the step in which a heartbeat of pod p returns after its read
HeartbeatReturns(p) == beat[p] # <<>> /\ beat'[p] = <<>>

CleanupStep == now' = now /\ did' # <<>> /\ did'[1].op = "cleanup"

\* the fields whose record is older than the timeout, and those whose value
\* is not a record
StaleOrUnparsable(h, t, timeout_seconds) ==
  {f \in DOMAIN h : /\ h[f] # NoField
                    /\ IF IsJson(h[f]) THEN t - JsonLoads(h[f]).updated_at > timeout_seconds
                                       ELSE TRUE}

\* C17: a cleanup whose store calls succeed removes exactly the fields whose
\* record is older than the timeout and the fields whose value cannot be
\* parsed, leaves the others, and returns the number removed.
C17_CleanupRemovesStaleAndUnparsable ==
  [][(CleanupStep /\ ~did'[1].failed) =>
       LET gone == StaleOrUnparsable(hash, now, did'[1].arg)
       IN /\ hash' = HDel(hash, gone)
          /\ did'[1].removed = Cardinality(gone)]_vars
C20_EmptySelectorMatchesNoPods ==
  (counted # <<>> /\ counted[1].match_labels = {}) =>
    /\ counted[1].busy = 0
    /\ counted[1].idle = 0
    /\ counted[1].desired = ClosedForm(0, hsj.idleTarget, hsj.minReplicas, hsj.maxReplicas)
\* the last probe was an exec probe of a Running pod
ExecProbed == counted # <<>> /\ counted[1].mode = "exec" /\ counted[1].pod.phase = "Running"

\* C21: in exec mode, a Running pod whose command completes is busy exactly
\* when (exit code = 0) agrees with successIsBusy.
C21_ExecMapsExitThroughSuccessIsBusy ==
  (ExecProbed /\ counted[1].pod.exec \in {"exit0", "exit1"} /\ counted[1].pod.reread = "Running") =>
    counted[1].busy = ((counted[1].pod.exec = "exit0") = counted[1].successIsBusy)

\* C22: every exec channel the probe opened is closed when it returns.
C22_ExecChannelClosed ==
  (counted # <<>> /\ counted[1].mode = "exec") =>
    counted[1].channel.closed = counted[1].channel.opened

\* C23: in exec mode (successIsBusy true), a matched pod that is Succeeded,
\* when listed or when read again, and whose exec fails, by non-zero exit or
\* by an exception, is counted busy.
C23_SucceededPodWithFailedExecIsBusy ==
  (/\ counted # <<>> /\ counted[1].mode = "exec" /\ counted[1].variant = "parallelism"
   /\ counted[1].successIsBusy
   /\ counted[1].pod.exec \in {"exit1", "raise", "raise_open"}
   /\ \/ counted[1].pod.phase = "Succeeded"
      \/ counted[1].pod.phase = "Running" /\ counted[1].pod.reread = "Succeeded") =>
    counted[1].tally.busy = 1

\* the probe met an error: an HTTP transport error or timeout, a pod without
\* IP, an exec channel failure
ProbeError ==
  /\ counted # <<>>
  /\ IF counted[1].mode = "http"
       THEN counted[1].pod.http = "error" \/ ~counted[1].pod.ip
       ELSE counted[1].pod.exec \in ExecRaises

\* C24: a probe error never raises out of the count and never counts the pod
\* busy, whatever successIsBusy and whichever variant; a pod without IP gets
\* no HTTP request.
C24_ProbeErrorIsNotBusy ==
  ProbeError =>
    /\ ~counted[1].busy
    /\ ~counted[1].tally.raised
    /\ counted[1].tally.busy = 0
    /\ (counted[1].mode = "http" /\ ~counted[1].pod.ip) => counted[1].gets = 0
\* a child Job that has neither completed nor failed, its pod started or not
JobIsUnfinished(j) == ~JobIsCompleted(j) /\ ~JobIsFailed(j)

\* C25: a tick that fails at a Job create leaves the Jobs it had created
\* (nothing is deleted) and returns nothing; the successful tick that comes
\* after a tick that failed partway creates only the Jobs still missing, the
\* desired number less the unfinished children it finds.
C25_CreateFailureKeepsJobsNextTickFillsUp ==
  [][/\ (last' # last /\ last'[1].fault = "create") =>
          /\ ~last'[1].ok
          /\ Len(jobs') = Len(jobs) + last'[1].creates - 1
          /\ SubSeq(jobs', 1, Len(jobs)) = jobs
     /\ (last # <<>> /\ last[1].fault = "create" /\ last[1].creates > 1
         /\ last' # last /\ last'[1].ok) =>
          last'[1].creates =
            Max(0, last'[1].patch[1].desiredActive - CountIf(last'[1].before[1], JobIsUnfinished))]_vars

\* C30: when maxReplicas is set, the unfinished child Jobs, started or not,
\* are never more than maxReplicas.
C30_UnfinishedJobsWithinMax ==
  ~IsNone(hsj.maxReplicas) =>
    CountIf(ChildJobs, JobIsUnfinished) <= Max(0, hsj.maxReplicas[1])
\* a step in which a manipulator operation returns
ManipulatorStep ==
  /\ now' = now
  /\ did' # <<>>
  /\ did'[1].op \in {"enter", "set_status", "heartbeat", "exit"}

\* C28: a manipulator operation (register on entering the scope, set_status,
\* heartbeat, unregister on leaving it) whose store call fails returns False
\* and leaves the hash as it was; the pod goes on as after a success (the
\* scope is entered or left, the heartbeat is over).
C28_FailedWriteReturnsFalse ==
  [][(ManipulatorStep /\ did'[1].failed) =>
       /\ ~did'[1].ok
       /\ hash' = hash
       /\ \A p \in PodNames :
            /\ scope[p] = "out" /\ did'[1].op = "enter" /\ did'[1].pod = p => scope'[p] = "in"
            /\ did'[1].op = "exit" /\ did'[1].pod = p => scope'[p] = "left"
            /\ did'[1].op = "heartbeat" /\ did'[1].pod = p => beat'[p] = <<>>]_vars

\* a heartbeat over an absent field failed at its write (the register as
\* idle), inside the scope, and the field is still absent
C28_Witness ==
  /\ did # <<>> /\ did[1].op = "heartbeat" /\ did[1].failed /\ ~did[1].ok
  /\ did[1].arg = "alone"
  /\ scope[1] = "in"
  /\ hash[1] = NoField
\* C29 as amended: the pod-template labels of a created Job carry the owner
\* label with the HSJ's name, every selector label under any other key with
\* the selector's value, and the jobTemplate's labels under the keys neither
\* of them sets; a selector value under the owner label's key is overwritten.
C29_TemplateLabelsMerged ==
  counted # <<>> =>
    LET labels == counted[1].labels
        selector == counted[1].selector
        tmpl_labels == counted[1].tmpl_labels
    IN /\ DOMAIN labels = DOMAIN tmpl_labels \cup DOMAIN selector \cup {JOB_OWNER_LABEL}
       /\ labels[JOB_OWNER_LABEL] = HsjName
       /\ \A k \in DOMAIN selector \ {JOB_OWNER_LABEL} : labels[k] = selector[k]
       /\ \A k \in DOMAIN tmpl_labels \ (DOMAIN selector \cup {JOB_OWNER_LABEL}) :
            labels[k] = tmpl_labels[k]

\* the jobTemplate and the selector set the same key to different values
C29_Witness ==
  /\ counted # <<>>
  /\ "app" \in DOMAIN counted[1].tmpl_labels \cap DOMAIN counted[1].selector
  /\ counted[1].tmpl_labels["app"] = "a"
  /\ counted[1].selector["app"] = "b"
  /\ counted[1].labels["app"] = "b"

\* C29 as stated: the pod-template labels satisfy the selector, every key of
\* it with its value, and include the owner label.
C29_TemplateLabelsSatisfySelector ==
  counted # <<>> =>
    /\ JOB_OWNER_LABEL \in DOMAIN counted[1].labels
    /\ counted[1].labels[JOB_OWNER_LABEL] = HsjName
    /\ \A k \in DOMAIN counted[1].selector : counted[1].labels[k] = counted[1].selector[k]
\* a step that is a tick of the legacy reconciler
LegacyStep == now' = now /\ last' # <<>>

NamesOf(js) == {js[i].name : i \in 1..Len(js)}

\* C26: a tick that scales down (it observes more active than desired, and
\* at least that many Jobs) deletes exactly the surplus, and the Jobs it
\* deletes are the newest by creation time.
C26_ScaleDownDeletesNewestSurplus ==
  [][(LegacyStep /\ last'[1].ok /\ last'[1].over > 0 /\ last'[1].over <= Len(last'[1].before)) =>
       LET before == last'[1].before
           over == last'[1].over
       IN /\ Len(last'[1].deleted) = over
          /\ NamesOf(last'[1].deleted) = NamesOf(SubSeq(before, Len(before) - over + 1, Len(before)))]_vars

\* C27: under the legacy policy a tick deletes no Job younger than
\* scaleDownDelaySeconds and at most active_now - desired Jobs; only the Jobs
\* it deletes leave the pool; a 404 from a delete is taken as success and any
\* other delete failure fails the tick.
C27_LegacyScaleDownRespectsDelay ==
  [][LegacyStep =>
       /\ \A i \in 1..Len(last'[1].deleted) : now - last'[1].deleted[i].cts >= ScaleDownDelay
       /\ Len(last'[1].deleted) <= Max(0, last'[1].active_now - last'[1].desired)
       /\ NamesOf(jobs) \ NamesOf(jobs') = NamesOf(last'[1].deleted)
       /\ last'[1].fault = "404" => last'[1].ok
       /\ last'[1].fault = "500" => ~last'[1].ok]_vars

\* a tick found a surplus of two, deleted the one Job that was old enough
\* although its delete answered 404, and spared the young one
C27_Witness ==
  /\ last # <<>> /\ now = 1
  /\ last[1].fault = "404" /\ last[1].ok
  /\ last[1].over = 2
  /\ Len(last[1].before) = 2
  /\ Len(last[1].deleted) = 1
  /\ Len(jobs) = 1 /\ jobs[1].cts = 1
\* a step that is a tick of the pool-of-Jobs reconciler (the Job controller's
\* steps leave the tick record and the number of Jobs alone)
PoolTick == last' # <<>> /\ (last' # last \/ Len(jobs') # Len(jobs))

\* the tick of this step got as far as listing the child Jobs
PoolListed == last'[1].before # <<>>

\* C31: a tick that observes current_active >= desired_active issues no
\* create and leaves every Job as it was (no delete, no patch); and whatever
\* a tick observes, the Jobs that existed before it are all still there,
\* unchanged: the pool changes only by the Jobs the tick creates.
C31_TickAtOrAboveDesiredLeavesJobs ==
  [][PoolTick =>
       /\ Len(jobs') >= Len(jobs)
       /\ SubSeq(jobs', 1, Len(jobs)) = jobs
       /\ PoolListed =>
            LET c == last'[1].count[1]
                current_active == CountIf(last'[1].before[1], JobIsActive)
                desired_active ==
                  DesiredActiveReplicas(c.busy, hsj.idleTarget, hsj.minReplicas, hsj.maxReplicas)
            IN current_active >= desired_active =>
                 /\ last'[1].creates = 0
                 /\ jobs' = jobs]_vars

\* a tick found two active child Jobs where one was desired, returned, and
\* both Jobs are still there
C31_Witness ==
  /\ Returned
  /\ last[1].creates = 0
  /\ Patch.desiredActive = 1
  /\ CountIf(last[1].before[1], JobIsActive) = 2
  /\ Patch.childJobs = 2
  /\ Len(jobs) = 2
\* a set_status of pod p completed while the heartbeat that now returns was
\* between its read and its write: it is the last call made on the store, and
\* the read of the heartbeat came before it
SetStatusInFlight(p) ==
  /\ HeartbeatReturns(p)
  /\ did # <<>> /\ did[1].op = "set_status" /\ did[1].pod = p /\ did[1].ok

\* C32: when a set_status(s) of a pod completes while a heartbeat of the same
\* pod is in flight, the record's status is s once the heartbeat has returned.
C32_HeartbeatKeepsConcurrentStatus ==
  [][\A p \in PodNames : SetStatusInFlight(p) =>
       /\ IsJson(hash'[p])
       /\ JsonLoads(hash'[p]).status = did[1].arg]_vars
\* the scope of pod p was left, its unregister removing the field, while the
\* heartbeat that now returns was between its read and its write
UnregisterInFlight(p) ==
  /\ HeartbeatReturns(p)
  /\ did # <<>> /\ did[1].op = "exit" /\ did[1].pod = p /\ did[1].ok

\* C33: when the unregister of a pod (by a call or by leaving the scope)
\* completes while a heartbeat of the same pod is in flight, the pod's field
\* is absent from the hash once the heartbeat has returned.
C33_HeartbeatNeverRecreatesRecord ==
  [][\A p \in PodNames : UnregisterInFlight(p) => hash'[p] = NoField]_vars
====
